---------------------------- MODULE Spec2Model ----------------------------
(***************************************************************************)
(* mm3_Compile.py: the "Compile" stage of the mother-machine pipeline.     *)
(* The script is one straight-line program; the model follows its control  *)
(* flow stage by stage (pc), with the extraction pool's workers as the     *)
(* only concurrent processes.                                              *)
(*                                                                         *)
(* The parameter dictionary p is loaded once (line 75).  The model draws   *)
(* each parameter at the line that first consults it and keeps it in p,    *)
(* so a parameter read twice has one value.                                *)
(*                                                                         *)
(* The names of the Unet block (lines 225-368) that no later line reads    *)
(* are set back to their initial values once the block is done with them;  *)
(* a run that ends in an exception keeps them as they were.                *)
(***************************************************************************)
EXTENDS Integers, Sequences, FiniteSets, TLC

VARIABLES
    pc,              \* position of the main script
    err,             \* uncaught exception that ended the run, or "none"
    p,               \* parameters consulted so far (key -> value)
    t_end,           \* p['compile']['t_end'], 0 for None (both are falsy)
    user_spec_fovs,  \* --fov list
    found_files,     \* list of file names to analyse
    warned,          \* TRUE once mm3.warning('No TIFF files found') was emitted
    analyzed_imgs,   \* the metadata table: file -> AsyncResult | record | False
    idx,             \* files of found_files the submission loop has passed
    pool,            \* "none", "open", "closed", "joined"
    task,            \* file -> state of its extraction task
    ran,             \* stages that have run after file discovery
    handed,          \* tables handed to mm3 helpers: [to, table]
    channel_masks,   \* "undefined", "loaded" or "made"
    written,         \* writers invoked by the slicing stage
    file_names,      \* Unet: the table's keys, sorted
    centroids,       \* Unet: rounded centroids of the dilated trap regions
    good_trap_region_index,  \* Unet: index of the anchor region, -1 before
    centroid,        \* Unet: the anchor centroid as uint16
    crop_window,     \* Unet: [r0, r1, c0, c1] of the alignment crop
    align_trap_props,\* Unet: regions of the labelled alignment mask stack
    mode_area,       \* Unet: the modal region area
    labelled,        \* Unet: label of each region in the mask stack, 0 = erased
    integer_shifts,  \* Unet: one (row, col) shift per frame
    trap_images_dict \* Unet: "undefined" or "made"

pipeVars == <<pc, err, p, t_end, user_spec_fovs, found_files, warned,
              analyzed_imgs, idx, pool, task, ran, handed, channel_masks,
              written>>
unetVars == <<file_names, centroids, good_trap_region_index, centroid,
              crop_window, align_trap_props, mode_area, labelled,
              integer_shifts, trap_images_dict>>
pipeVarsButPc == <<p, t_end, user_spec_fovs, found_files, warned,
                   analyzed_imgs, idx, pool, task, ran, handed, channel_masks,
                   written>>
vars == <<pipeVars, unetVars>>

---------------------------------------------------------------------------
(* Bounds *)

MaxFiles == 3          \* most files the TIFF directory holds

MaxRegions == 2        \* most dilated trap regions in the first frame

MaxAlignRegions == 2   \* most regions in the labelled alignment mask stack
MaxAreas == 4          \* most regions handed to the modal-area filter alone

(* Program constants *)

NumAnalyzers == 2      \* p['num_analyzers'], the pool size

---------------------------------------------------------------------------
(* File names.  A file is named ...t<timepoint>xy<fov>.tif; the timepoint  *)
(* field is 3 or 4 digits wide.  A file is [t, w, fov]; Name renders the   *)
(* part of the name that differs between files as a string of character    *)
(* codes, so that sorting and matching work on the text as the code does.  *)

FileUniverse ==
    { [t |-> 1, w |-> 3, fov |-> 1],     \* t001xy01
      [t |-> 2, w |-> 3, fov |-> 1],     \* t002xy01
      [t |-> 3, w |-> 4, fov |-> 1],     \* t0003xy01
      [t |-> 2, w |-> 3, fov |-> 2] }    \* t002xy02

TEndValues == {0, 2}
FovLists == { <<>>, <<2>>, <<2, 1>> }

\* centroids the first-frame detection may report, (row, col)
CentroidValues == { <<1000, 1000>>, <<2000, 1000>>, <<100, 1000>>, <<1000, 100>> }
CentroidLists ==
    UNION { [1..n -> CentroidValues] : n \in 0..MaxRegions }

\* regions of the alignment mask stack.  A region is [area, cen]: its pixel
\* count and, for each frame it has pixels in, its centroid there in half
\* pixels (the masks are painted as boxes, whose centroids are multiples of
\* one half).  A connected region covers an interval of frames.  Region i
\* sits at BaseCen(i) in frame 0 and the stage drifts by d per frame.
AreaValues == {55, 100}
DispValues == { <<0, 0>>, <<3, -1>> }
BaseCen(i) == <<40 * i, 20>>
Intervals(F) == { a..b : a \in 0..(F - 1), b \in 0..(F - 1) } \ {{}}
AlignRegionLists(F) ==
    UNION { { [i \in 1..n |->
                 [area |-> ar[i],
                  cen  |-> [f \in iv[i] |-> << BaseCen(i)[1] + f * d[1],
                                               BaseCen(i)[2] + f * d[2] >>]]] :
              ar \in [1..n -> AreaValues], iv \in [1..n -> Intervals(F)],
              d \in DispValues } : n \in 0..MaxAlignRegions }

RECURSIVE DigitsOf(_)
DigitsOf(n) == IF n < 10 THEN <<48 + n>>
               ELSE DigitsOf(n \div 10) \o <<48 + (n % 10)>>

RECURSIVE ZeroPad(_, _)
ZeroPad(s, w) == IF Len(s) >= w THEN s ELSE ZeroPad(<<48>> \o s, w)

\* '%0wd' % n
PadNum(n, w) == ZeroPad(DigitsOf(n), w)

\* 't' = 116, 'x' = 120, 'y' = 121
Name(f) == <<116>> \o PadNum(f.t, f.w) \o <<120, 121>> \o PadNum(f.fov, 2)

\* Python's string order: lexicographic on character codes
RECURSIVE StrLess(_, _)
StrLess(a, b) ==
    IF Len(b) = 0 THEN FALSE
    ELSE IF Len(a) = 0 THEN TRUE
    ELSE IF Head(a) # Head(b) THEN Head(a) < Head(b)
    ELSE StrLess(Tail(a), Tail(b))

\* sorted(files): by name
RECURSIVE SortedByName(_)
SortedByName(S) ==
    IF S = {} THEN <<>>
    ELSE LET m == CHOOSE x \in S : \A y \in S \ {x} : StrLess(Name(x), Name(y))
         IN  <<m>> \o SortedByName(S \ {m})

\* sub in s
Contains(s, sub) ==
    \E i \in 0..(Len(s) - Len(sub)) : SubSeq(s, i + 1, i + Len(sub)) = sub

\* re.search('t%03dxy|t%04dxy' % (t_end, t_end), ifile)
MatchesTEnd(f, te) ==
    \/ Contains(Name(f), <<116>> \o PadNum(te, 3) \o <<120, 121>>)
    \/ Contains(Name(f), <<116>> \o PadNum(te, 4) \o <<120, 121>>)

\* found_files[:n] for the first n whose name matches t_end
CutAtTEnd(files, te) ==
    IF te = 0 \/ ~\E n \in 1..Len(files) : MatchesTEnd(files[n], te)
    THEN files
    ELSE LET n == CHOOSE k \in 1..Len(files) :
                     /\ MatchesTEnd(files[k], te)
                     /\ \A j \in 1..(k - 1) : ~MatchesTEnd(files[j], te)
         IN  SubSeq(files, 1, n - 1)

\* fitered_files += [ifile for ifile in found_files if 'xy%02d' % fov_id in ifile]
RECURSIVE FilterByFov(_, _)
FilterByFov(files, fovs) ==
    IF fovs = <<>> THEN <<>>
    ELSE LET fov_string == <<120, 121>> \o PadNum(Head(fovs), 2)
             Keep(f) == Contains(Name(f), fov_string)
         IN  SelectSeq(files, Keep) \o FilterByFov(files, Tail(fovs))

\* lines 116-139: the list of files to analyse
FoundFiles(dir, te, fovs) ==
    LET cut == CutAtTEnd(SortedByName(dir), te)
    IN  IF Len(fovs) > 0 THEN FilterByFov(cut, fovs) ELSE cut

Range(s) == { s[i] : i \in 1..Len(s) }

---------------------------------------------------------------------------
(* The metadata table *)

AsyncResult == [tag |-> "AsyncResult"]
False       == [tag |-> "False"]
Record(f, ch) == [tag |-> "record", fov |-> f.fov, t |-> f.t, channels |-> ch]

IsRecord(e) == e.tag = "record"

\* parameters: drawn when first consulted
ParamValues(k) ==
    CASE k = "find_channels_method" -> {"peaks", "Unet"}
      [] k = "output"               -> {"TIFF", "HDF5"}
      [] OTHER                      -> BOOLEAN

Reads(k, v) == IF k \in DOMAIN p THEN v = p[k] ELSE v \in ParamValues(k)
With(k, v)  == IF k \in DOMAIN p THEN p ELSE p @@ (k :> v)

Crash(e) == pc' = "crashed" /\ err' = e

---------------------------------------------------------------------------
Init ==
    /\ pc = "start"
    /\ err = "none"
    /\ p = <<>>
    /\ t_end \in TEndValues
    /\ user_spec_fovs \in FovLists
    /\ found_files = <<>>
    /\ warned = FALSE
    /\ analyzed_imgs = <<>>
    /\ idx = 0
    /\ pool = "none"
    /\ task = <<>>
    /\ ran = {}
    /\ handed = {}
    /\ channel_masks = "undefined"
    /\ written = {}
    /\ file_names = <<>>
    /\ centroids = <<>>
    /\ good_trap_region_index = -1
    /\ centroid = <<0, 0>>
    /\ crop_window = <<0, 0, 0, 0>>
    /\ align_trap_props = <<>>
    /\ mode_area = 0
    /\ labelled = <<>>
    /\ integer_shifts = <<>>
    /\ trap_images_dict = "undefined"

---------------------------------------------------------------------------
(* Metadata stage, lines 105-147 *)

\* tables a previous run may have left in TIFF_metadata.pkl
SavedTables ==
    UNION { [S -> {"record", "False"}] :
              S \in { T \in SUBSET FileUniverse : Cardinality(T) <= MaxFiles } }

\* line 106: if not p['compile']['do_metadata']
Start ==
    /\ pc = "start"
    /\ \E v \in BOOLEAN :
         /\ Reads("do_metadata", v)
         /\ p' = With("do_metadata", v)
         /\ pc' = IF v THEN "discover" ELSE "load"
    /\ UNCHANGED <<err, t_end, user_spec_fovs, found_files, warned,
                   analyzed_imgs, idx, pool, task, ran, handed,
                   channel_masks, written>>
    /\ UNCHANGED unetVars

\* lines 109-110: the table is opened in text mode and unpickled; Python 3
\* raises on the text stream, Python 2 returns the saved table
LoadMetadata ==
    /\ pc = "load"
    /\ \/ Crash("TypeError") /\ UNCHANGED analyzed_imgs
       \/ \E tb \in SavedTables :
            /\ analyzed_imgs' =
                 [f \in DOMAIN tb |-> IF tb[f] = "record" THEN Record(f, TRUE)
                                      ELSE False]
            /\ pc' = "time_table"
            /\ err' = err
    /\ UNCHANGED <<p, t_end, user_spec_fovs, found_files, warned, idx, pool,
                   task, ran, handed, channel_masks, written>>
    /\ UNCHANGED unetVars

\* lines 116-145: glob, sort, cut at t_end, filter by fov, report
Discover ==
    /\ pc = "discover"
    /\ \E dir \in SUBSET FileUniverse :
         /\ Cardinality(dir) <= MaxFiles
         /\ found_files' = FoundFiles(dir, t_end, user_spec_fovs)
    /\ warned' = (Len(found_files') = 0)
    /\ pc' = "method"
    /\ UNCHANGED <<err, p, t_end, user_spec_fovs, analyzed_imgs, idx, pool,
                   task, ran, handed, channel_masks, written>>
    /\ UNCHANGED unetVars

\* lines 147-150: peaks, open the pool
StartPeaks ==
    /\ pc = "method"
    /\ Reads("find_channels_method", "peaks")
    /\ p' = With("find_channels_method", "peaks")
    /\ pool' = "open"
    /\ pc' = "submit"
    /\ UNCHANGED <<err, t_end, user_spec_fovs, found_files, warned,
                   analyzed_imgs, idx, task, ran, handed, channel_masks,
                   written>>
    /\ UNCHANGED unetVars

---------------------------------------------------------------------------
(* Extraction pool, lines 150-176 *)

Finished(s) == s \in {"ok", "failed"}

\* line 161: analyzed_imgs[fn] = pool.apply_async(...)
SubmitTask ==
    /\ pc = "submit"
    /\ idx < Len(found_files)
    /\ LET fn == found_files[idx + 1]
       IN  /\ analyzed_imgs' = [f \in DOMAIN analyzed_imgs \cup {fn} |->
                                  IF f = fn THEN AsyncResult ELSE analyzed_imgs[f]]
           /\ task' = [f \in DOMAIN task \cup {fn} |->
                         IF f = fn THEN "queued" ELSE task[f]]
    /\ idx' = idx + 1
    /\ ran' = ran \cup {"detect"}
    /\ UNCHANGED <<pc, err, p, t_end, user_spec_fovs, found_files, warned,
                   pool, handed, channel_masks, written>>
    /\ UNCHANGED unetVars

\* line 165: pool.close()
ClosePool ==
    /\ pc = "submit"
    /\ idx = Len(found_files)
    /\ pool' = "closed"
    /\ pc' = "join"
    /\ UNCHANGED <<err, p, t_end, user_spec_fovs, found_files, warned,
                   analyzed_imgs, idx, task, ran, handed, channel_masks, written>>
    /\ UNCHANGED unetVars

\* a free worker of the pool takes a queued task
WorkerStart(fn) ==
    /\ fn \in DOMAIN task
    /\ task[fn] = "queued"
    /\ Cardinality({f \in DOMAIN task : task[f] = "running"}) < NumAnalyzers
    /\ task' = [task EXCEPT ![fn] = "running"]
    /\ UNCHANGED <<pc, err, p, t_end, user_spec_fovs, found_files, warned,
                   analyzed_imgs, idx, pool, ran, handed, channel_masks, written>>
    /\ UNCHANGED unetVars

\* mm3.get_tif_params(fn, True) returns or raises in the worker
WorkerFinish(fn) ==
    /\ fn \in DOMAIN task
    /\ task[fn] = "running"
    /\ \E r \in {"ok", "failed"} : task' = [task EXCEPT ![fn] = r]
    /\ UNCHANGED <<pc, err, p, t_end, user_spec_fovs, found_files, warned,
                   analyzed_imgs, idx, pool, ran, handed, channel_masks, written>>
    /\ UNCHANGED unetVars

JoinReturnsEarly == TRUE

\* line 166: pool.join() returns once every task is processed
JoinReturns == \A f \in DOMAIN task : Finished(task[f])

\* line 166: pool.join() blocks until every task is processed
JoinPool ==
    /\ pc = "join"
    /\ JoinReturns
    /\ pool' = "joined"
    /\ pc' = "collect"
    /\ UNCHANGED <<err, p, t_end, user_spec_fovs, found_files, warned,
                   analyzed_imgs, idx, task, ran, handed, channel_masks, written>>
    /\ UNCHANGED unetVars

CollectedEntryUnchecked(f) == Record(f, TRUE)

\* lines 173-176: the metadata if the task succeeded, False if it raised
CollectedEntry(f) == IF task[f] = "ok" THEN Record(f, TRUE) ELSE False

\* lines 171-176: successful() raises on a result that is not ready
Collect ==
    /\ pc = "collect"
    /\ IF \E f \in DOMAIN analyzed_imgs : ~Finished(task[f])
       THEN Crash("ValueError") /\ UNCHANGED analyzed_imgs
       ELSE /\ analyzed_imgs' =
                 [f \in DOMAIN analyzed_imgs |-> CollectedEntry(f)]
            /\ pc' = "persist"
            /\ err' = err
    /\ UNCHANGED <<p, t_end, user_spec_fovs, found_files, warned, idx, pool,
                   task, ran, handed, channel_masks, written>>
    /\ UNCHANGED unetVars

---------------------------------------------------------------------------
(* Segmentation strategy, lines 178-368 *)

FullFrameSize == 2048   \* rows and columns of a frame
HalfCrop == 256         \* half the side of the alignment crop
CropSide == 512         \* side of the alignment crop

\* lines 178-193: Unet, load the model
StartUnet ==
    /\ pc = "method"
    /\ Reads("find_channels_method", "Unet")
    /\ p' = With("find_channels_method", "Unet")
    /\ pc' = "unet_meta"
    /\ UNCHANGED <<err, t_end, user_spec_fovs, found_files, warned,
                   analyzed_imgs, idx, pool, task, ran, handed, channel_masks,
                   written>>
    /\ UNCHANGED unetVars

\* lines 199-204: the files are read one after the other in the main
\* process; an unreadable file raises there
UnetMetadata ==
    /\ pc = "unet_meta"
    /\ \/ /\ Len(found_files) > 0
          /\ Crash("Exception")
          /\ UNCHANGED analyzed_imgs
       \/ /\ analyzed_imgs' = [f \in Range(found_files) |-> Record(f, FALSE)]
          /\ pc' = "unet_sort"
          /\ err' = err
    /\ UNCHANGED <<p, t_end, user_spec_fovs, found_files, warned, idx, pool,
                   task, ran, handed, channel_masks, written>>
    /\ UNCHANGED unetVars

\* lines 227-239: file_names.sort(), first_frame_name = file_names[0]
UnetSort ==
    /\ pc = "unet_sort"
    /\ file_names' = SortedByName(DOMAIN analyzed_imgs)
    /\ IF Len(file_names') = 0
       THEN Crash("IndexError")
       ELSE pc' = "unet_anchor" /\ err' = err
    /\ UNCHANGED pipeVarsButPc
    /\ UNCHANGED <<centroids, good_trap_region_index, centroid, crop_window,
                   align_trap_props, mode_area, labelled, integer_shifts,
                   trap_images_dict>>

\* line 288
top_test(cs) == [i \in 1..Len(cs) |-> cs[i][1] - HalfCrop > 0]
\* line 289
bottom_test(cs) == [i \in 1..Len(cs) |-> cs[i][1] + HalfCrop < FullFrameSize]
\* line 290: np.stack, shape (2, number of regions)
test_array(cs) == <<top_test(cs), bottom_test(cs)>>

\* np.all(a, axis=1) of a two-dimensional array: one value per row
AllAxis1(a) == [k \in 1..Len(a) |-> \A i \in 1..Len(a[k]) : a[k][i]]

\* np.where(b)[0][0]: the first index (from 0) that holds, -1 if none does
\* (the code raises IndexError there)
WhereFirst(b) ==
    IF \E k \in 1..Len(b) : b[k]
    THEN (CHOOSE k \in 1..Len(b) : b[k] /\ \A j \in 1..(k - 1) : ~b[j]) - 1
    ELSE -1

\* line 293
GoodTrapRegionIndex(cs) == WhereFirst(AllAxis1(test_array(cs)))

\* .astype('uint16')
AsUint16(n) == n % 65536

\* lines 249-294: detection on the first frame gives the centroids of the
\* dilated trap regions; the anchor is picked among them
UnetAnchor ==
    /\ pc = "unet_anchor"
    /\ \E cs \in CentroidLists :
         /\ centroids' = cs
         /\ IF Len(cs) = 0
            THEN \* centroids[:,0] on an array of shape (0,)
                 /\ Crash("IndexError")
                 /\ UNCHANGED <<good_trap_region_index, centroid>>
            ELSE LET g == GoodTrapRegionIndex(cs)
                 IN  /\ good_trap_region_index' = g
                     /\ IF g < 0 \/ g >= Len(cs)
                        THEN Crash("IndexError") /\ UNCHANGED centroid
                        ELSE /\ centroid' = <<AsUint16(cs[g + 1][1]),
                                              AsUint16(cs[g + 1][2])>>
                             /\ pc' = "unet_stack"
                             /\ err' = err
    /\ ran' = ran \cup {"detect"}
    /\ UNCHANGED <<p, t_end, user_spec_fovs, found_files, warned,
                   analyzed_imgs, idx, pool, task, handed, channel_masks,
                   written>>
    /\ UNCHANGED <<file_names, crop_window, align_trap_props, mode_area,
                   labelled, integer_shifts, trap_images_dict>>

Max(a, b) == IF a > b THEN a ELSE b
Min(a, b) == IF a < b THEN a ELSE b

\* number of elements of a[lo:hi] for an axis of n elements
SliceLen(lo, hi, n) ==
    LET a == IF lo < 0 THEN Max(lo + n, 0) ELSE Min(lo, n)
        b == IF hi < 0 THEN Max(hi + n, 0) ELSE Min(hi, n)
    IN  IF b > a THEN b - a ELSE 0

\* centroid[k] - 256 and centroid[k] + 256 on a uint16 scalar: the result
\* stays uint16 and wraps (wrap), or is promoted to a signed integer
Uint16Plus(c, k, wrap) == IF wrap THEN (c + k) % 65536 ELSE c + k

CropWindow(c, wrap) ==
    << Uint16Plus(c[1], -HalfCrop, wrap), Uint16Plus(c[1], HalfCrop, wrap),
       Uint16Plus(c[2], -HalfCrop, wrap), Uint16Plus(c[2], HalfCrop, wrap) >>

CropFits(w) ==
    /\ SliceLen(w[1], w[2], FullFrameSize) = CropSide
    /\ SliceLen(w[3], w[4], FullFrameSize) = CropSide

\* lines 297-304: the crop of every frame is stored in a (512,512) slot;
\* a slice of another shape raises ValueError.  The list of centroids and
\* the anchor index are not read after line 294 and are dropped here.
UnetAlignStack ==
    /\ pc = "unet_stack"
    /\ \E wrap \in BOOLEAN :
         /\ crop_window' = CropWindow(centroid, wrap)
         /\ IF CropFits(crop_window')
            THEN /\ pc' = "unet_align"
                 /\ err' = err
                 /\ centroids' = <<>>
                 /\ good_trap_region_index' = -1
            ELSE /\ Crash("ValueError")
                 /\ UNCHANGED <<centroids, good_trap_region_index>>
    /\ UNCHANGED pipeVarsButPc
    /\ UNCHANGED <<file_names, centroid, align_trap_props, mode_area,
                   labelled, integer_shifts, trap_images_dict>>

\* number of regions of the given area
CountArea(areas, a) == Cardinality({i \in 1..Len(areas) : areas[i] = a})

\* line 338, stats.mode(areas)[0]: the most frequent value, the smallest of
\* them on a tie; 0 stands for the result on an empty array
ModeAreaLargest(areas) ==
    IF Len(areas) = 0 THEN 0
    ELSE CHOOSE m \in Range(areas) : \A o \in Range(areas) : m >= o

ModeArea(areas) ==
    IF Len(areas) = 0 THEN 0
    ELSE CHOOSE m \in Range(areas) :
           \A o \in Range(areas) :
              \/ CountArea(areas, m) > CountArea(areas, o)
              \/ CountArea(areas, m) = CountArea(areas, o) /\ m <= o

\* lines 340-347: the labels of the regions whose area is not the mode are
\* set to 0 in the mask stack; labels count from 1
EraseBad(props, mode) ==
    [i \in 1..Len(props) |-> IF props[i].area # mode THEN 0 ELSE i]

\* areas of the regions, in label order (line 334)
Areas(props) == [i \in 1..Len(props) |-> props[i].area]

\* lines 330-347 on the regions props of the labelled mask stack
AlignRegionsStep(props) ==
    /\ pc = "unet_align"
    /\ align_trap_props' = props
    /\ mode_area' = ModeArea(Areas(props))
    /\ labelled' = EraseBad(props, mode_area')
    /\ pc' = "unet_drift"
    /\ UNCHANGED <<err, p, t_end, user_spec_fovs, found_files, warned,
                   analyzed_imgs, idx, pool, task, ran, handed, channel_masks,
                   written>>
    /\ UNCHANGED <<file_names, centroids, good_trap_region_index, centroid,
                   crop_window, integer_shifts, trap_images_dict>>

\* lines 310-347: prediction on the crops, labelling of the whole stack,
\* modal-area filter
UnetAlignRegions ==
    /\ pc = "unet_align"
    /\ \E props \in AlignRegionLists(Len(file_names)) : AlignRegionsStep(props)

\* line 351: the centroids of the regions left in one frame, in label order
FrameCentroids(props, lab, frame) ==
    LET Here(i) == lab[i] # 0 /\ frame \in DOMAIN props[i].cen
        ids == SelectSeq([i \in 1..Len(props) |-> i], Here)
    IN  [k \in 1..Len(ids) |-> props[ids[k]].cen[frame]]

\* np.round of num/den (den > 0): to the nearest integer, halves to even
RoundHalfEven(num, den) ==
    LET q == num \div den
        r == num % den
    IN  IF 2 * r < den THEN q
        ELSE IF 2 * r > den THEN q + 1
        ELSE IF q % 2 = 0 THEN q ELSE q + 1

\* .astype('int16')
AsInt16(n) == ((n + 32768) % 65536) - 32768

RECURSIVE SumSeq(_)
SumSeq(s) == IF Len(s) = 0 THEN 0 ELSE Head(s) + SumSeq(Tail(s))

\* the mean cut to the integer below it instead of rounded
FrameShiftFloored(cf, c0) ==
    LET n == Len(cf)
        Diff(k) == [i \in 1..n |-> cf[i][k] - c0[i][k]]
    IN  << AsInt16(SumSeq(Diff(1)) \div (2 * n)),
           AsInt16(SumSeq(Diff(2)) \div (2 * n)) >>

\* lines 355-357 for one frame: centroids are in half pixels, so the mean
\* of n differences is their sum over 2n
FrameShift(cf, c0) ==
    LET n == Len(cf)
        Diff(k) == [i \in 1..n |-> cf[i][k] - c0[i][k]]
    IN  << AsInt16(RoundHalfEven(SumSeq(Diff(1)), 2 * n)),
           AsInt16(RoundHalfEven(SumSeq(Diff(2)), 2 * n)) >>

\* lines 349-357: np.asarray of lists of unequal length is not a
\* (frames, regions, 2) array, nor is one of empty lists; indexing it with
\* [0,:,:] raises (older numpy) or np.asarray itself does (newer numpy)
UnetDrift ==
    /\ pc = "unet_drift"
    /\ LET F == Len(file_names)
           cents == [f \in 0..(F - 1) |->
                       FrameCentroids(align_trap_props, labelled, f)]
       IN  IF \/ \E f \in 0..(F - 1) : Len(cents[f]) # Len(cents[0])
              \/ Len(cents[0]) = 0
           THEN /\ \E e \in {"IndexError", "ValueError"} : Crash(e)
                /\ UNCHANGED integer_shifts
           ELSE /\ integer_shifts' =
                     [k \in 1..F |-> FrameShift(cents[k - 1], cents[0])]
                /\ pc' = "unet_crop"
                /\ err' = err
    /\ UNCHANGED pipeVarsButPc
    /\ UNCHANGED <<file_names, centroids, good_trap_region_index, centroid,
                   crop_window, align_trap_props, mode_area, labelled,
                   trap_images_dict>>

\* lines 359-368: boxes shifted, traps cropped, channels stored in the
\* table.  No line after 368 reads the names of the detection block, and
\* the model drops their values here.
UnetCrop ==
    /\ pc = "unet_crop"
    /\ trap_images_dict' = "made"
    /\ analyzed_imgs' = [f \in DOMAIN analyzed_imgs |->
                           [analyzed_imgs[f] EXCEPT !.channels = TRUE]]
    /\ pc' = "persist"
    /\ centroids' = <<>>
    /\ good_trap_region_index' = -1
    /\ centroid' = <<0, 0>>
    /\ crop_window' = <<0, 0, 0, 0>>
    /\ align_trap_props' = <<>>
    /\ mode_area' = 0
    /\ labelled' = <<>>
    /\ integer_shifts' = <<>>
    /\ UNCHANGED <<err, p, t_end, user_spec_fovs, found_files, warned, idx,
                   pool, task, ran, handed, channel_masks, written>>
    /\ UNCHANGED file_names

---------------------------------------------------------------------------
(* Lines 370-436 *)

\* lines 371-377: pickle.dump and pprint of the table
Persist ==
    /\ pc = "persist"
    /\ ran' = ran \cup {"persist"}
    /\ pc' = "time_table"
    /\ UNCHANGED <<err, p, t_end, user_spec_fovs, found_files, warned,
                   analyzed_imgs, idx, pool, task, handed, channel_masks, written>>
    /\ UNCHANGED unetVars

\* lines 380-383
TimeTable ==
    /\ pc = "time_table"
    /\ \E v \in BOOLEAN :
         /\ Reads("do_time_table", v)
         /\ p' = With("do_time_table", v)
         /\ IF v
            THEN /\ handed' = handed \cup
                       {[to |-> "make_time_table", table |-> analyzed_imgs]}
                 /\ ran' = ran \cup {"time_table"}
            ELSE UNCHANGED <<handed, ran>>
    /\ pc' = "masks"
    /\ UNCHANGED <<err, t_end, user_spec_fovs, found_files, warned,
                   analyzed_imgs, idx, pool, task, channel_masks, written>>
    /\ UNCHANGED unetVars

\* lines 386-387: masks not made but slicing wanted, load them
LoadMasks ==
    /\ pc = "masks"
    /\ Reads("do_channel_masks", FALSE)
    /\ \E s \in BOOLEAN :
         /\ IF "do_slicing" \in DOMAIN p THEN s = p["do_slicing"] ELSE TRUE
         /\ p' = (IF "do_slicing" \in DOMAIN p THEN p ELSE p @@ ("do_slicing" :> s))
                   @@ ("do_channel_masks" :> FALSE)
         /\ channel_masks' = IF s THEN "loaded" ELSE channel_masks
         /\ ran' = IF s THEN ran \cup {"masks"} ELSE ran
    /\ pc' = "slicing"
    /\ UNCHANGED <<err, t_end, user_spec_fovs, found_files, warned,
                   analyzed_imgs, idx, pool, task, handed, written>>
    /\ UNCHANGED unetVars

\* lines 389-396: six is not a name of the module, so the t_end filter raises
MakeMasks ==
    /\ pc = "masks"
    /\ Reads("do_channel_masks", TRUE)
    /\ p' = With("do_channel_masks", TRUE)
    /\ ran' = ran \cup {"masks"}
    /\ IF t_end # 0
       THEN Crash("NameError") /\ UNCHANGED <<handed, channel_masks>>
       ELSE /\ handed' = handed \cup
                  {[to |-> "make_masks", table |-> analyzed_imgs]}
            /\ channel_masks' = "made"
            /\ pc' = "slicing"
            /\ err' = err
    /\ UNCHANGED <<t_end, user_spec_fovs, found_files, warned, analyzed_imgs,
                   idx, pool, task, written>>
    /\ UNCHANGED unetVars

\* line 399, slicing switched off
SkipSlicing ==
    /\ pc = "slicing"
    /\ Reads("do_slicing", FALSE)
    /\ p' = With("do_slicing", FALSE)
    /\ pc' = "done"
    /\ UNCHANGED <<err, t_end, user_spec_fovs, found_files, warned,
                   analyzed_imgs, idx, pool, task, ran, handed, channel_masks,
                   written>>
    /\ UNCHANGED unetVars

\* lines 403-406: the fov loop starts with six.iteritems, and six is not a
\* name of the module
SlicePeaks ==
    /\ pc = "slicing"
    /\ Reads("do_slicing", TRUE)
    /\ Reads("find_channels_method", "peaks")
    /\ p' = With("do_slicing", TRUE) @@ ("find_channels_method" :> "peaks")
    /\ ran' = ran \cup {"slicing"}
    /\ Crash("NameError")
    /\ UNCHANGED <<t_end, user_spec_fovs, found_files, warned, analyzed_imgs,
                   idx, pool, task, handed, channel_masks, written>>
    /\ UNCHANGED unetVars

\* lines 428-434: Unet; only the TIFF output has a writer
SliceUnet ==
    /\ pc = "slicing"
    /\ Reads("do_slicing", TRUE)
    /\ Reads("find_channels_method", "Unet")
    /\ \E o \in {"TIFF", "HDF5"} :
         /\ Reads("output", o)
         /\ p' = ((p @@ ("do_slicing" :> TRUE))
                     @@ ("find_channels_method" :> "Unet")) @@ ("output" :> o)
         /\ IF o = "TIFF" /\ trap_images_dict = "undefined"
            THEN Crash("NameError") /\ UNCHANGED written
            ELSE /\ written' = IF o = "TIFF" THEN written \cup {"save_tiffs"}
                                ELSE written
                 /\ pc' = "done"
                 /\ err' = err
    /\ ran' = ran \cup {"slicing"}
    /\ UNCHANGED <<t_end, user_spec_fovs, found_files, warned, analyzed_imgs,
                   idx, pool, task, handed, channel_masks>>
    /\ UNCHANGED unetVars

---------------------------------------------------------------------------
(* Properties *)

Failed == {f \in DOMAIN task : task[f] = "failed"}
Collected == pool = "joined" /\ pc # "collect"

\* C1: peak strategy, a batch of K files of which exactly one fails: the
\* collection does not raise, the table holds K entries, the failed file
\* holds False and every other file holds its record.
C1_OneFailureIsolated ==
    (Collected /\ Cardinality(Failed) = 1) =>
        /\ err # "ValueError"
        /\ DOMAIN analyzed_imgs = Range(found_files)
        /\ Cardinality(DOMAIN analyzed_imgs) = Len(found_files)
        /\ \A f \in DOMAIN analyzed_imgs :
              analyzed_imgs[f] = IF f \in Failed THEN False ELSE Record(f, TRUE)

C1_Witness ==
    /\ Collected
    /\ Len(found_files) = 3
    /\ Cardinality(Failed) = 1
    /\ Cardinality({f \in DOMAIN analyzed_imgs : IsRecord(analyzed_imgs[f])}) = 2

\* C2: in a run in which an extraction failed, no table handed to the
\* time-table or mask stage holds an entry that is the failure sentinel.
C2_SentinelNeverHandedOn ==
    Failed # {} =>
        \A h \in handed : \A f \in DOMAIN h.table : h.table[f] # False

SortedByTimepoint(files) ==
    \A i \in 1..Len(files) : \A j \in i..Len(files) : files[i].t <= files[j].t

\* C3: the sequence of frames the Unet stages work on (first-frame choice,
\* alignment stack) is in timepoint order.
C3_ConsumersSeeTimeOrder ==
    pc \in {"unet_anchor", "unet_stack", "unet_align", "unet_drift", "unet_crop"}
        => SortedByTimepoint(file_names)

AfterJoin == {"collect", "persist", "time_table", "masks", "slicing", "done"}

\* C4: once the script is past pool.join() (reading results, or any later
\* stage) every submitted task has finished, and a task is only ever
\* submitted to the open pool.
C4_BlockingForkJoin ==
    /\ [](pc \in AfterJoin => \A f \in DOMAIN task : Finished(task[f]))
    /\ [][DOMAIN task' # DOMAIN task => pool = "open"]_vars

C4_Witness ==
    /\ pc = "collect"
    /\ pool = "joined"
    /\ Cardinality(DOMAIN task) = 3
    /\ \E f \in DOMAIN task : task[f] = "failed"
    /\ \E f \in DOMAIN task : task[f] = "ok"

\* C5: once the empty file list is detected, no detection, persistence,
\* time-table, mask or slicing stage runs.
C5_EmptyInputIsFatal ==
    warned => ran \cap {"detect", "persist", "time_table", "masks", "slicing"} = {}

\* the 512x512 crop centred on c lies in the frame
InFrame(c) ==
    /\ c[1] - HalfCrop >= 0 /\ c[1] + HalfCrop <= FullFrameSize
    /\ c[2] - HalfCrop >= 0 /\ c[2] + HalfCrop <= FullFrameSize

\* C6: the alignment stack is never built when no dilated region permits
\* the in-bounds crop.
C6_NoAnchorNoStack ==
    pc = "unet_stack" => \E i \in 1..Len(centroids) : InFrame(centroids[i])

\* frames whose number of accepted regions differs from frame 0's
MismatchedFrames ==
    { f \in 1..(Len(file_names) - 1) :
        Len(FrameCentroids(align_trap_props, labelled, f))
          # Len(FrameCentroids(align_trap_props, labelled, 0)) }

\* C7: a frame whose region count differs from frame 0's does not end the
\* run.
C7_MismatchIsRecoverable == MismatchedFrames # {} => pc # "crashed"

\* C8: a run over a table that holds frames, with slicing enabled, that
\* reaches the end of the slicing stage has invoked a writer.
C8_SlicingWrites ==
    (pc = "done" /\ "slicing" \in ran /\ DOMAIN analyzed_imgs # {})
        => written # {}

\* C9: the anchor index is a region index, its region leaves 256 pixels to
\* all four edges, no earlier region does, and the crop window is
\* [c-256, c+256) inside the frame, not wrapped.
C9_FirstInFrameRegion ==
    /\ pc = "unet_stack" =>
          /\ good_trap_region_index \in 0..(Len(centroids) - 1)
          /\ InFrame(centroids[good_trap_region_index + 1])
          /\ \A j \in 1..good_trap_region_index : ~InFrame(centroids[j])
    /\ crop_window # <<0, 0, 0, 0>> =>
          /\ crop_window = CropWindow(centroid, FALSE)
          /\ crop_window[1] >= 0 /\ crop_window[2] <= FullFrameSize
          /\ crop_window[3] >= 0 /\ crop_window[4] <= FullFrameSize

\* C10: the mode is an area no other area is more frequent than; a region
\* keeps its label exactly when its area is the mode, every other label is
\* 0; areas [100,100,100,55] give mode 100 and only the last region erased.
C10_ModalAreaFilter ==
    pc = "unet_drift" =>
        LET areas == Areas(align_trap_props)
        IN  /\ Len(areas) > 0 => mode_area \in Range(areas)
            /\ \A a \in Range(areas) :
                  CountArea(areas, mode_area) >= CountArea(areas, a)
            /\ Len(labelled) = Len(areas)
            /\ \A i \in 1..Len(areas) :
                  /\ areas[i] = mode_area => labelled[i] = i
                  /\ areas[i] # mode_area => labelled[i] = 0
            /\ areas = <<100, 100, 100, 55>> =>
                  mode_area = 100 /\ labelled = <<1, 2, 3, 0>>

C10_Witness ==
    /\ pc = "unet_drift"
    /\ Areas(align_trap_props) = <<100, 100, 100, 55>>
    /\ mode_area = 100
    /\ labelled = <<1, 2, 3, 0>>

Abs(n) == IF n < 0 THEN -n ELSE n

\* the integer translations (row, col), in pixels, the rigid case is asked
\* about
Translations == { <<r, c>> : r \in -2..2, c \in -2..2 }

\* C11: once the shifts are computed there is one (row, col) integer pair
\* per frame; each component is the mean, over the regions left in the
\* frame matched by position with those left in frame 0, of (centroid in
\* the frame - centroid in frame 0), rounded to a nearest integer; frame
\* 0's pair is (0,0); and where every region left in a frame is its frame 0
\* partner moved by one integer translation, the pair is within 1 pixel of
\* that translation in each component.  Centroids are in half pixels, so a
\* shift s is a nearest integer to sum/(2n) when |2n*s - sum| <= n.
C11_ShiftIsRoundedMean ==
    pc = "unet_crop" =>
        LET F == Len(file_names)
            c0 == FrameCentroids(align_trap_props, labelled, 0)
        IN  /\ Len(integer_shifts) = F
            /\ \A k \in 1..F : integer_shifts[k] \in Int \X Int
            /\ integer_shifts[1] = <<0, 0>>
            /\ \A k \in 1..F :
                  LET cf == FrameCentroids(align_trap_props, labelled, k - 1)
                      n == Len(cf)
                      Total(j) == SumSeq([i \in 1..n |-> cf[i][j] - c0[i][j]])
                  IN  /\ n = Len(c0)
                      /\ \A j \in 1..2 :
                            Abs(2 * n * integer_shifts[k][j] - Total(j)) <= n
                      /\ \A d \in Translations :
                            (\A i \in 1..n :
                                /\ cf[i][1] = c0[i][1] + 2 * d[1]
                                /\ cf[i][2] = c0[i][2] + 2 * d[2])
                            => /\ Abs(integer_shifts[k][1] - d[1]) <= 1
                               /\ Abs(integer_shifts[k][2] - d[2]) <= 1

\* two regions left in each of two frames, both moved by (2, -1) pixels
C11_Witness ==
    /\ pc = "unet_crop"
    /\ Len(file_names) = 2
    /\ Len(FrameCentroids(align_trap_props, labelled, 0)) = 2
    /\ \A i \in 1..2 :
          FrameCentroids(align_trap_props, labelled, 1)[i] =
            << FrameCentroids(align_trap_props, labelled, 0)[i][1] + 4,
               FrameCentroids(align_trap_props, labelled, 0)[i][2] - 2 >>
    /\ integer_shifts = << <<0, 0>>, <<2, -1>> >>

\* C12: whenever the slicing stage has run, what it reads was bound earlier
\* in the run: the channel masks (loaded or made) under the peak strategy,
\* the dictionary of cropped trap images under the Unet strategy with TIFF
\* output, whatever the switches, do_metadata off included.
C12_SlicingInputsBound ==
    "slicing" \in ran =>
        /\ p["find_channels_method"] = "peaks"
              => channel_masks \in {"loaded", "made"}
        /\ (p["find_channels_method"] = "Unet" /\ p["output"] = "TIFF")
              => trap_images_dict = "made"

---------------------------------------------------------------------------
Next ==
    \/ Start
    \/ LoadMetadata
    \/ Discover
    \/ StartPeaks
    \/ SubmitTask
    \/ ClosePool
    \/ \E fn \in FileUniverse : WorkerStart(fn)
    \/ \E fn \in FileUniverse : WorkerFinish(fn)
    \/ JoinPool
    \/ Collect
    \/ Persist
    \/ TimeTable
    \/ LoadMasks
    \/ MakeMasks
    \/ SkipSlicing
    \/ SlicePeaks
    \/ StartUnet
    \/ UnetMetadata
    \/ UnetSort
    \/ UnetAnchor
    \/ UnetAlignStack
    \/ UnetAlignRegions
    \/ UnetDrift
    \/ UnetCrop
    \/ SliceUnet

Spec == Init /\ [][Next]_vars

---------------------------------------------------------------------------
(* The modal-area filter on its own: the script stands at line 330 with    *)
(* the alignment stack of one or two frames built, and the labelling       *)
(* reports any list of up to MaxAreas regions.                             *)

ModeAreaValues == {55, 100, 120}
ModeRegionLists ==
    UNION { { [i \in 1..n |-> [area |-> ar[i], cen |-> (0 :> BaseCen(i))]] :
              ar \in [1..n -> ModeAreaValues] } : n \in 0..MaxAreas }

InitMode ==
    /\ pc = "unet_align"
    /\ err = "none"
    /\ p = [do_metadata |-> TRUE, find_channels_method |-> "Unet"]
    /\ t_end = 0
    /\ user_spec_fovs = <<>>
    /\ \E dir \in SUBSET FileUniverse :
         /\ Cardinality(dir) \in 1..2
         /\ found_files = SortedByName(dir)
    /\ warned = FALSE
    /\ analyzed_imgs = [f \in Range(found_files) |-> Record(f, FALSE)]
    /\ idx = 0
    /\ pool = "none"
    /\ task = <<>>
    /\ ran = {"detect"}
    /\ handed = {}
    /\ channel_masks = "undefined"
    /\ written = {}
    /\ file_names = found_files
    /\ centroids = <<>>
    /\ good_trap_region_index = -1
    /\ centroid = <<1000, 1000>>
    /\ crop_window = <<744, 1256, 744, 1256>>
    /\ align_trap_props = <<>>
    /\ mode_area = 0
    /\ labelled = <<>>
    /\ integer_shifts = <<>>
    /\ trap_images_dict = "undefined"

ModeFilter == \E props \in ModeRegionLists : AlignRegionsStep(props)

NextMode == ModeFilter

SpecMode == InitMode /\ [][NextMode]_vars

---------------------------------------------------------------------------
(* The shift estimate on its own: the script stands at line 330 with the   *)
(* alignment stack of one or two frames built; the labelling reports up to *)
(* MaxAlignRegions regions, each over an interval of frames and each       *)
(* moving from frame to frame on its own, and lines 330-357 run.           *)

ShiftFrames == 2
ShiftOffsets == { <<0, 0>>, <<4, -2>>, <<3, 0>> }
ShiftRegionsAt(i, F) ==
    { [area |-> a,
       cen |-> [f \in iv |-> << BaseCen(i)[1] + o[f][1],
                                BaseCen(i)[2] + o[f][2] >>]] :
      a \in AreaValues, iv \in Intervals(F),
      o \in [0..(F - 1) -> ShiftOffsets] }
RECURSIVE ShiftListsOf(_, _)
ShiftListsOf(n, F) ==
    IF n = 0 THEN { <<>> }
    ELSE { Append(l, r) : l \in ShiftListsOf(n - 1, F),
                          r \in ShiftRegionsAt(n, F) }
ShiftRegionLists(F) == UNION { ShiftListsOf(n, F) : n \in 0..MaxAlignRegions }

InitShift ==
    /\ pc = "unet_align"
    /\ err = "none"
    /\ p = [do_metadata |-> TRUE, find_channels_method |-> "Unet"]
    /\ t_end = 0
    /\ user_spec_fovs = <<>>
    /\ \E n \in 1..ShiftFrames :
         found_files = SubSeq(SortedByName(FileUniverse), 1, n)
    /\ warned = FALSE
    /\ analyzed_imgs = [f \in Range(found_files) |-> Record(f, FALSE)]
    /\ idx = 0
    /\ pool = "none"
    /\ task = <<>>
    /\ ran = {"detect"}
    /\ handed = {}
    /\ channel_masks = "undefined"
    /\ written = {}
    /\ file_names = found_files
    /\ centroids = <<>>
    /\ good_trap_region_index = -1
    /\ centroid = <<1000, 1000>>
    /\ crop_window = <<744, 1256, 744, 1256>>
    /\ align_trap_props = <<>>
    /\ mode_area = 0
    /\ labelled = <<>>
    /\ integer_shifts = <<>>
    /\ trap_images_dict = "undefined"

ShiftLabel ==
    /\ pc = "unet_align"
    /\ \E props \in ShiftRegionLists(Len(file_names)) : AlignRegionsStep(props)

NextShift == ShiftLabel \/ UnetDrift

SpecShift == InitShift /\ [][NextShift]_vars

=============================================================================
